---- MODULE Spec2Model ----
(***************************************************************************)
(* Model of tennis_dashboard.py (WTSL Stats): the record store built at    *)
(* import time (data.json -> DataFrame, de-duplicated, hand normalised)    *)
(* and the three Dash callbacks update_player_list, render_tabs and        *)
(* compare_players, with the helper talent_to_stars.                       *)
(*                                                                         *)
(* Python strings that the code inspects character by character (player    *)
(* names, the search box text, URL query strings) are sequences of         *)
(* one-character strings over printable ASCII.  Category values that the   *)
(* code only compares as a whole (style, hand, tab ids, labels) are TLA+   *)
(* strings.  Every Python value (a JSON value, a DataFrame cell, a         *)
(* callback argument) is a record tagged with its type.                    *)
(***************************************************************************)
EXTENDS Integers, Sequences, FiniteSets, TLC

VARIABLES
  data,      \* json.load(f): the raw records of data.json, in file order
  df,        \* the module-level DataFrame: a sequence of rows, each a function
             \* from the column names to cells
  columns,   \* df.columns
  layout,    \* the option sets of the style and hand dropdowns of app.layout
  pc,        \* "import" before the module body has run, "failed" when it raised,
             \* "serving" while the app waits for a callback request,
             \* "replied" when a callback has produced its response
  out        \* the last callback invocation: its arguments and what it returned

vars == <<data, df, columns, layout, pc, out>>

\* Python values: None, an int, a str compared as a whole (a TLA+ string), a
\* str read character by character (a sequence of characters), a float NaN
None == [t |-> "none"]

Num(n) == [t |-> "int", v |-> n]

Str(s) == [t |-> "str", v |-> s]

Text(s) == [t |-> "text", v |-> s]

\* The cell pandas puts where a record has no value for a column
NaN == [t |-> "nan"]

IsNa(cell) == cell.t = "nan"

\* bool(x) as "if x:" takes it: None, 0 and the empty string are false
Truthy(x) ==
  \/ x.t = "int" /\ x.v # 0
  \/ x.t = "str" /\ x.v # ""
  \/ x.t = "text" /\ x.v # <<>>

-----------------------------------------------------------------------------
(* Characters: printable ASCII, code points 32..126.  The grave accent     *)
(* (code 96) cannot be written in a string literal and is spelled out.     *)

Ascii ==
  << " ", "!", "\"", "#", "$", "%", "&", "'", "(", ")", "*", "+", ",", "-", ".", "/",
     "0", "1", "2", "3", "4", "5", "6", "7", "8", "9", ":", ";", "<", "=", ">", "?",
     "@", "A", "B", "C", "D", "E", "F", "G", "H", "I", "J", "K", "L", "M", "N", "O",
     "P", "Q", "R", "S", "T", "U", "V", "W", "X", "Y", "Z", "[", "\\", "]", "^", "_",
     "<grave>", "a", "b", "c", "d", "e", "f", "g", "h", "i", "j", "k", "l", "m", "n", "o",
     "p", "q", "r", "s", "t", "u", "v", "w", "x", "y", "z", "{", "|", "}", "~" >>

Chars == {Ascii[i] : i \in 1..Len(Ascii)}

\* ord(c), tabulated
CodeTable == [c \in Chars |-> 31 + (CHOOSE i \in 1..Len(Ascii) : Ascii[i] = c)]

Code(c) == CodeTable[c]

\* chr(n); a byte outside printable ASCII is kept as one opaque character
Chr(n) == IF n \in 32..126 THEN Ascii[n - 31] ELSE "<?>"

\* str.lower() on one character, as re.IGNORECASE folds ASCII letters
LowerTable ==
  [c \in Chars |-> IF CodeTable[c] \in 65..90 THEN Chr(CodeTable[c] + 32) ELSE c]

Lower(c) == IF c \in Chars THEN LowerTable[c] ELSE c

IsAlnum(c) == Code(c) \in (48..57) \cup (65..90) \cup (97..122)

HexDigits == << "0", "1", "2", "3", "4", "5", "6", "7", "8", "9", "A", "B", "C", "D", "E", "F" >>

LowerHex == << "a", "b", "c", "d", "e", "f" >>

IsHex(c) == (\E i \in 1..16 : HexDigits[i] = c) \/ (\E i \in 1..6 : LowerHex[i] = c)

HexVal(c) ==
  IF \E i \in 1..16 : HexDigits[i] = c
  THEN (CHOOSE i \in 1..16 : HexDigits[i] = c) - 1
  ELSE (CHOOSE i \in 1..6 : LowerHex[i] = c) + 9

\* Lexicographic order of Python str by code point: a < b
RECURSIVE StrLess(_, _)
StrLess(a, b) ==
  IF b = <<>> THEN FALSE
  ELSE IF a = <<>> THEN TRUE
  ELSE IF a[1] = b[1] THEN StrLess(Tail(a), Tail(b))
  ELSE Code(a[1]) < Code(b[1])

-----------------------------------------------------------------------------
(* urllib.parse: quote_plus, unquote_plus, parse_qs.                       *)

\* Characters quote() never escapes: letters, digits and "_.-~"
AlwaysSafe(c) == IsAlnum(c) \/ c \in {"_", ".", "-", "~"}

\* quote_plus(s): a space becomes "+", an unsafe character "%XX" (upper-case hex)
RECURSIVE quote_plus(_)
quote_plus(s) ==
  IF s = <<>> THEN <<>>
  ELSE (IF s[1] = " " THEN <<"+">>
        ELSE IF AlwaysSafe(s[1]) THEN <<s[1]>>
        ELSE <<"%", HexDigits[(Code(s[1]) \div 16) + 1], HexDigits[(Code(s[1]) % 16) + 1]>>)
       \o quote_plus(Tail(s))

\* unquote(s): "%" followed by two hex digits becomes that byte, any other "%" stays
RECURSIVE unquote(_)
unquote(s) ==
  IF s = <<>> THEN <<>>
  ELSE IF s[1] = "%" /\ Len(s) >= 3 /\ IsHex(s[2]) /\ IsHex(s[3])
       THEN <<Chr(16 * HexVal(s[2]) + HexVal(s[3]))>> \o unquote(SubSeq(s, 4, Len(s)))
       ELSE <<s[1]>> \o unquote(Tail(s))

\* s.replace("+", " ")
PlusToSpace(s) == [i \in 1..Len(s) |-> IF s[i] = "+" THEN " " ELSE s[i]]

unquote_plus(s) == unquote(PlusToSpace(s))

\* s.lstrip("?")
RECURSIVE lstrip_q(_)
lstrip_q(s) == IF s # <<>> /\ s[1] = "?" THEN lstrip_q(Tail(s)) ELSE s

\* Index of the first c in s, 0 when there is none
FirstIndex(s, c) ==
  IF \E i \in 1..Len(s) : s[i] = c
  THEN CHOOSE i \in 1..Len(s) : s[i] = c /\ \A j \in 1..(i - 1) : s[j] # c
  ELSE 0

\* s.split(sep) for a one-character separator
RECURSIVE Split(_, _)
Split(s, sep) ==
  IF FirstIndex(s, sep) = 0 THEN <<s>>
  ELSE <<SubSeq(s, 1, FirstIndex(s, sep) - 1)>>
       \o Split(SubSeq(s, FirstIndex(s, sep) + 1, Len(s)), sep)

\* parse_qsl(qs): the (name, value) pairs in order; a field without "=" or with a
\* blank value is dropped (keep_blank_values=False), name and value are decoded
RECURSIVE PairsOf(_)
PairsOf(fields) ==
  IF fields = <<>> THEN <<>>
  ELSE LET f == fields[1]
           eq == FirstIndex(f, "=")
       IN (IF eq = 0 \/ eq = Len(f) THEN <<>>
           ELSE << <<unquote_plus(SubSeq(f, 1, eq - 1)),
                     unquote_plus(SubSeq(f, eq + 1, Len(f)))>> >>)
          \o PairsOf(Tail(fields))

parse_qsl(qs) == PairsOf(Split(qs, "&"))

\* parse_qs(qs)[key]: the values of key in order (empty when key is not in qs)
RECURSIVE ValuesOf(_, _)
ValuesOf(pairs, key) ==
  IF pairs = <<>> THEN <<>>
  ELSE (IF pairs[1][1] = key THEN <<pairs[1][2]>> ELSE <<>>) \o ValuesOf(Tail(pairs), key)

parse_qs(qs, key) == ValuesOf(parse_qsl(qs), key)

-----------------------------------------------------------------------------
(* re: the pattern fragment that Series.str.contains(pat, case=False)      *)
(* compiles by default (regex=True).  The fragment covers patterns built   *)
(* from ordinary characters, ".", the postfix repeats "*" and "+" and an   *)
(* opening "(" (never closed, as ")" is outside the fragment).  The other  *)
(* metacharacters ) [ ] { } ? | ^ $, the backslash, and a "+" directly     *)
(* after a repeat (possessive since Python 3.11) are outside it.           *)

IsRepeat(c) == c \in {"*", "+"}

\* re.compile(pat) raises re.error: "nothing to repeat" for a repeat with no item
\* before it, "multiple repeat" for a "*" after a repeat, and "missing ),
\* unterminated subpattern" for a group that is never closed
CompileError(pat) ==
  \E i \in 1..Len(pat) :
    \/ pat[i] = "("
    \/ IsRepeat(pat[i]) /\ i = 1
    \/ pat[i] = "*" /\ i > 1 /\ IsRepeat(pat[i - 1])

\* The compiled pattern: one item per atom, with its repeat ("1" for none)
RECURSIVE CompileItems(_)
CompileItems(pat) ==
  IF pat = <<>> THEN <<>>
  ELSE IF Len(pat) >= 2 /\ IsRepeat(pat[2])
       THEN <<[c |-> pat[1], q |-> pat[2]]>> \o CompileItems(SubSeq(pat, 3, Len(pat)))
       ELSE <<[c |-> pat[1], q |-> "1"]>> \o CompileItems(Tail(pat))

\* One pattern atom against one character under re.IGNORECASE
AtomMatches(c, x) == c = "." \/ Lower(c) = Lower(x)

\* Whether items[k..] match s starting at position j (backtracking over repeats)
RECURSIVE MatchAt(_, _, _, _)
MatchAt(items, k, s, j) ==
  IF k > Len(items) THEN TRUE
  ELSE LET it == items[k]
           Run(n) == \A m \in j..(j + n - 1) : AtomMatches(it.c, s[m])
       IN IF it.q = "1"
          THEN j <= Len(s) /\ AtomMatches(it.c, s[j]) /\ MatchAt(items, k + 1, s, j + 1)
          ELSE \E n \in (IF it.q = "+" THEN 1 ELSE 0)..(Len(s) - j + 1) :
                 Run(n) /\ MatchAt(items, k + 1, s, j + n)

\* regex.search(s) is not None
re_search(pat, s) ==
  LET items == CompileItems(pat)
  IN \E j \in 1..(Len(s) + 1) : MatchAt(items, 1, s, j)

-----------------------------------------------------------------------------
(* The attribute catalogue: LABELS and GROUPS.                             *)

LABELS ==
  [ name |-> "Player Name", style |-> "Play Style", height |-> "Height (cm)",
    weight |-> "Weight (kg)", hand |-> "Dominant Hand",
    fh_power |-> "Forehand Power", fh_consistency |-> "Forehand Consistency",
    fh_precision |-> "Forehand Precision", bh_power |-> "Backhand Power",
    bh_consistency |-> "Backhand Consistency", bh_precision |-> "Backhand Precision",
    fh_volley |-> "Forehand Volley", bh_volley |-> "Backhand Volley",
    smash |-> "Smash", net_presence |-> "Net Presence",
    srv_power |-> "Service Power", srv_consistency |-> "Service Consistency",
    srv_precision |-> "Service Precision", focus |-> "Focus",
    counter |-> "Counter Skill", lob |-> "Lob Skill", dropshot |-> "Dropshot Skill",
    topspin |-> "Topspin Skill", speed |-> "Speed", stamina |-> "Stamina",
    tonicity |-> "Muscle Tone", tal_slice_serve |-> "Slice Serve",
    tal_topspin_serve |-> "Topspin Serve", tal_twist_serve |-> "Twist Serve",
    tal_slice_mastery |-> "Slice Mastery", tal_slider |-> "Slider",
    tal_boom_server |-> "Boom Boom Server", tal_ball_feeling |-> "Ball Feeling",
    tal_spinny_bh |-> "Spinny Backhand", tal_flat_bh |-> "Flat Backhand" ]

GROUPS ==
  [ Rally |-> <<"fh_power", "fh_consistency", "fh_precision",
                "bh_power", "bh_consistency", "bh_precision">>,
    Volley |-> <<"fh_volley", "bh_volley", "smash", "net_presence">>,
    Serve |-> <<"srv_power", "srv_consistency", "srv_precision">>,
    Special |-> <<"focus", "counter", "lob", "dropshot", "topspin">>,
    Physique |-> <<"speed", "stamina", "tonicity">>,
    Talents |-> <<"tal_slice_serve", "tal_topspin_serve", "tal_twist_serve",
                  "tal_slice_mastery", "tal_slider", "tal_boom_server",
                  "tal_ball_feeling", "tal_spinny_bh", "tal_flat_bh">> ]

\* The two glyphs of talent_to_stars and the table placeholder
DashGlyph == "EM DASH"

StarGlyph == "STAR"

-----------------------------------------------------------------------------
(* Data loading: pd.DataFrame(data).drop_duplicates(subset=["name"])       *)
(* .reset_index(drop=True), then the hand column filled and replaced.      *)

\* The columns pd.DataFrame(records) gets: every key of every record
FrameColumns(records) == UNION {DOMAIN records[i] : i \in 1..Len(records)}

\* pd.DataFrame(records): one row per record, NaN where a record lacks a column
DataFrame(records) ==
  [i \in 1..Len(records) |->
     [c \in FrameColumns(records) |->
        IF c \in DOMAIN records[i] THEN records[i][c] ELSE NaN]]

\* drop_duplicates(subset=["name"]), keep="first": a row stays unless an earlier
\* row has its name; the rows that stay keep their order
RECURSIVE DropSeen(_, _)
DropSeen(rows, seen) ==
  IF rows = <<>> THEN <<>>
  ELSE IF rows[1].name \in seen THEN DropSeen(Tail(rows), seen)
       ELSE <<rows[1]>> \o DropSeen(Tail(rows), seen \cup {rows[1].name})

Reversed(rows) == [i \in 1..Len(rows) |-> rows[Len(rows) + 1 - i]]

\* Mutant: keep="last", the last row of each name stays
drop_duplicates_keep_last(rows) == Reversed(DropSeen(Reversed(rows), {}))

drop_duplicates(rows) == DropSeen(rows, {})

\* The dict given to replace()
HandTable ==
  [ L |-> "Left", R |-> "Right", U |-> "Left",
    LeftHanded |-> "Left", RightHanded |-> "Right",
    left |-> "Left", right |-> "Right",
    unknown |-> "Left", Unknown |-> "Left",
    Diestro |-> "Right", Zurdo |-> "Left" ]

\* Mutant: no fillna, a missing hand stays NaN
fillna_skipped(cell) == cell

\* fillna("Unknown")
fillna(cell) == IF IsNa(cell) THEN Str("Unknown") ELSE cell

\* replace({...}): a value that is a key of the dict becomes the dict's value,
\* any other value stays as it is
replace(cell) ==
  IF cell.t = "str" /\ cell.v \in DOMAIN HandTable THEN Str(HandTable[cell.v]) ELSE cell

NormalizeHand(rows) ==
  [i \in 1..Len(rows) |-> [rows[i] EXCEPT !.hand = replace(fillna(rows[i].hand))]]

\* sorted(df[col].dropna().unique()), as the set of the offered values
Options(rows, col) == {rows[i][col].v : i \in {k \in 1..Len(rows) : ~IsNa(rows[k][col])}}

\* The columns the module body reads while it runs: subset=["name"] at line 24,
\* df["hand"] at line 25, df["style"] and df["hand"] in the layout
ImportColumns == {"name", "hand", "style"}

-----------------------------------------------------------------------------
(* talent_to_stars.                                                        *)

IsDigit(c) == Code(c) \in 48..57

\* The str forms int() accepts here: an optional sign and one or more digits
IsIntLiteral(s) ==
  LET body == IF s # <<>> /\ s[1] \in {"+", "-"} THEN Tail(s) ELSE s
  IN body # <<>> /\ \A i \in 1..Len(body) : IsDigit(body[i])

RECURSIVE DigitsValue(_)
DigitsValue(s) ==
  IF s = <<>> THEN 0 ELSE 10 * DigitsValue(SubSeq(s, 1, Len(s) - 1)) + (Code(s[Len(s)]) - 48)

\* try: v = int(val) / except Exception: v = 0.  int() raises on None, on a
\* float NaN and on a str that is no integer literal
IntOrZero(val) ==
  IF val.t = "int" THEN val.v
  ELSE IF val.t = "text" /\ IsIntLiteral(val.v)
       THEN (IF val.v[1] = "-" THEN 0 - DigitsValue(Tail(val.v))
             ELSE IF val.v[1] = "+" THEN DigitsValue(Tail(val.v))
             ELSE DigitsValue(val.v))
       ELSE 0

\* The cap: min(v, 1) with max_one, else 2 when v > 2
Capped(v, max_one) ==
  IF max_one THEN (IF v < 1 THEN v ELSE 1)
  ELSE (IF v > 2 THEN 2 ELSE v)

\* "-" if v == 0 else star * v; a str times a negative int is the empty str
talent_to_stars(val, max_one) ==
  LET v == Capped(IntOrZero(val), max_one)
  IN IF v = 0 THEN <<DashGlyph>> ELSE [i \in 1..v |-> StarGlyph]

-----------------------------------------------------------------------------
(* Helpers shared by the callbacks.                                        *)

\* df[df["name"] == name]: the rows with that name, in store order
RowsNamed(rows, name) == LET Same(r) == r.name = name IN SelectSeq(rows, Same)

\* p.get(key, default) on a row: the cell when the frame has the column (NaN
\* when this record had no value for it), the default when it has not
Get(p, key, default) == IF key \in DOMAIN p THEN p[key] ELSE default

\* sort_values("name"): insertion of a row into rows sorted by name
RECURSIVE InsertByName(_, _)
InsertByName(row, sorted) ==
  IF sorted = <<>> THEN <<row>>
  ELSE IF StrLess(row.name.v, sorted[1].name.v) THEN <<row>> \o sorted
       ELSE <<sorted[1]>> \o InsertByName(row, Tail(sorted))

RECURSIVE sort_values(_)
sort_values(rows) ==
  IF rows = <<>> THEN <<>>
  ELSE InsertByName(rows[Len(rows)], sort_values(SubSeq(rows, 1, Len(rows) - 1)))

Raise(exc) == [kind |-> "raise", exc |-> exc]

\* "/?player=" + quote_plus(name)
PlayerHref(name) == <<"/", "?", "p", "l", "a", "y", "e", "r", "=">> \o quote_plus(name)

RADAR_ATTRS == <<"fh_power", "bh_power", "srv_power", "speed", "stamina", "focus">>

\* [p.get(a, 0) for a in radar_attrs], each value with its label
RadarValues(p) ==
  [i \in 1..Len(RADAR_ATTRS) |-> <<LABELS[RADAR_ATTRS[i]], Get(p, RADAR_ATTRS[i], Num(0))>>]

-----------------------------------------------------------------------------
(* update_player_list(search, style, hand, min_speed).                     *)

\* players[players["name"].str.contains(search, case=False, na=False)]
BySearch(players, search) ==
  LET Keep(r) == r.name.t = "text" /\ re_search(search.v, r.name.v)
  IN SelectSeq(players, Keep)

\* players[players["style"] == style]
ByStyle(players, style) == LET Keep(r) == r.style = style IN SelectSeq(players, Keep)

\* players[players["hand"] == hand]
ByHand(players, hand) == LET Keep(r) == r.hand = hand IN SelectSeq(players, Keep)

\* Mutant: speed > min_speed
BySpeedStrict(players, min_speed) ==
  LET Keep(r) == r.speed.t = "int" /\ r.speed.v > min_speed.v
  IN SelectSeq(players, Keep)

\* players[players["speed"] >= min_speed]; NaN >= n is False
BySpeed(players, min_speed) ==
  LET Keep(r) == r.speed.t = "int" /\ r.speed.v >= min_speed.v
  IN SelectSeq(players, Keep)

\* The html.A elements built from the rows, in order
Links(players) ==
  [i \in 1..Len(players) |->
     [text |-> players[i].name.v, href |-> PlayerHref(players[i].name.v)]]

update_player_list(search, style, hand, min_speed) ==
  IF Truthy(search) /\ CompileError(search.v) THEN Raise("re.error")
  ELSE IF Truthy(min_speed) /\ "speed" \notin columns THEN Raise("KeyError")
  ELSE LET p1 == IF Truthy(search) THEN BySearch(df, search) ELSE df
           p2 == IF Truthy(style) THEN ByStyle(p1, style) ELSE p1
           p3 == IF Truthy(hand) THEN ByHand(p2, hand) ELSE p2
           p4 == IF Truthy(min_speed) THEN BySpeed(p3, min_speed) ELSE p3
           players == sort_values(p4)
       IN IF players = <<>> THEN [kind |-> "no_players"]
          ELSE [kind |-> "links", links |-> Links(players)]

-----------------------------------------------------------------------------
(* render_tabs(tab, search).                                               *)

PLAYER == <<"p", "l", "a", "y", "e", "r">>

\* Lines 380-384: the player name read from the URL query, None when the
\* query is empty or carries no player field
PlayerName(search) ==
  IF ~Truthy(search) THEN None
  ELSE LET qs == parse_qs(lstrip_q(search.v), PLAYER)
       IN IF qs = <<>> THEN None ELSE Text(unquote_plus(qs[1]))

\* tab.capitalize() for the five group tabs
Capitalize ==
  [ rally |-> "Rally", volley |-> "Volley", serve |-> "Serve",
    special |-> "Special", physique |-> "Physique" ]

\* The table rows of a group tab: label and p.get(key, dash)
GroupRows(p, keys) ==
  [i \in 1..Len(keys) |-> <<LABELS[keys[i]], Get(p, keys[i], Str(DashGlyph))>>]

\* The table rows of the talents tab
TalentRows(p) ==
  LET keys == GROUPS.Talents
  IN [i \in 1..Len(keys) |->
        <<LABELS[keys[i]], talent_to_stars(Get(p, keys[i], Num(0)), FALSE)>>]

\* Lines 397-455: the view of the selected row p under the tab
TabView(p, tab) ==
  IF tab = Str("overview")
  THEN (IF ~({"style", "hand", "height", "weight"} \subseteq DOMAIN p)
        THEN Raise("KeyError")
        ELSE [kind |-> "overview", name |-> p.name.v, style |-> p.style,
              hand |-> p.hand, height |-> p.height, weight |-> p.weight,
              radar |-> RadarValues(p)])
  ELSE IF tab.t = "str" /\ tab.v \in DOMAIN Capitalize
  THEN [kind |-> "group", name |-> p.name.v, section |-> Capitalize[tab.v],
        rows |-> GroupRows(p, GROUPS[Capitalize[tab.v]])]
  ELSE IF tab = Str("talents")
  THEN [kind |-> "talents", name |-> p.name.v, rows |-> TalentRows(p)]
  ELSE IF tab = Str("compare")
  THEN [kind |-> "compare", options |-> [i \in 1..Len(df) |-> df[i].name.v],
        value |-> p.name.v]
  ELSE [kind |-> "invalid_tab"]

\* Mutant: the tab is validated before the player is looked up
render_tabs_tab_first(tab, search) ==
  LET player_name == PlayerName(search)
      matches == RowsNamed(df, player_name)
      known == {"overview", "rally", "volley", "serve", "special", "physique",
                "talents", "compare"}
  IN IF ~Truthy(player_name) THEN [kind |-> "select_player"]
     ELSE IF ~(tab.t = "str" /\ tab.v \in known) THEN [kind |-> "invalid_tab"]
     ELSE IF matches = <<>> THEN [kind |-> "not_found", name |-> player_name.v]
     ELSE TabView(matches[1], tab)

render_tabs(tab, search) ==
  LET player_name == PlayerName(search)
      matches == RowsNamed(df, player_name)
  IN IF ~Truthy(player_name) THEN [kind |-> "select_player"]
     ELSE IF matches = <<>> THEN [kind |-> "not_found", name |-> player_name.v]
     ELSE TabView(matches[1], tab)

-----------------------------------------------------------------------------
(* compare_players(a, b).                                                  *)

\* df[df["name"] == n].iloc[0] raises IndexError when no row has the name
compare_players(a, b) ==
  IF ~Truthy(a) \/ ~Truthy(b) THEN [kind |-> "select_two"]
  ELSE IF RowsNamed(df, a) = <<>> \/ RowsNamed(df, b) = <<>> THEN Raise("IndexError")
  ELSE LET p1 == RowsNamed(df, a)[1]
           p2 == RowsNamed(df, b)[1]
       IN [kind |-> "comparison",
           radar |-> <<[player |-> a.v, values |-> RadarValues(p1)],
                       [player |-> b.v, values |-> RadarValues(p2)]>>,
           table |-> [i \in 1..Len(RADAR_ATTRS) |->
                        <<LABELS[RADAR_ATTRS[i]],
                          Get(p1, RADAR_ATTRS[i], Str(DashGlyph)),
                          Get(p2, RADAR_ATTRS[i], Str(DashGlyph))>>]]

-----------------------------------------------------------------------------
(* The inputs: the raw records data.json may hold and the arguments the    *)
(* browser may send to the callbacks.                                      *)

\* Longest data.json modelled, in records
MaxRaw == 2

Ab == <<"A", "b">>

APlusB == <<"a", "+", "b">>

ASpaceB == <<"a", " ", "b">>

ADotB == <<"a", ".", "b">>

Ghost == <<"z", "z">>

\* A raw record: the keys every record of the data set carries, and extra keys
Rec(name, style, speed, extra) ==
  [name |-> Text(name), style |-> Str(style), speed |-> Num(speed),
   height |-> Num(180), weight |-> Num(75)] @@ extra

Hand(h) == "hand" :> Str(h)

Fh(n) == "fh_power" :> Num(n)

Tal(v) == "tal_slider" :> v

\* Raw records: every spelling of the hand table, a spelling outside it, a
\* record without hand, records with and without fh_power and tal_slider, and
\* names that repeat with different values
RawPool ==
  { Rec(Ab, "Aggressive", 80, Hand("L") @@ Fh(70) @@ Tal(Num(1))),
    Rec(Ab, "Defensive", 40, Hand("R") @@ Tal(Text(<<"b", "a", "d">>))),
    Rec(APlusB, "Aggressive", 40, Hand("U") @@ Fh(55) @@ Tal(Num(0))),
    Rec(ASpaceB, "Defensive", 80, Tal(Num(5))),
    Rec(ADotB, "Aggressive", 60, Hand("RIGHT") @@ Fh(90) @@ Tal(Num(0 - 1))),
    Rec(APlusB, "Defensive", 60, Hand("LeftHanded")),
    Rec(ASpaceB, "Aggressive", 40, Hand("RightHanded") @@ Fh(30)),
    Rec(ADotB, "Defensive", 80, Hand("left") @@ Tal(Num(2))),
    Rec(Ab, "Aggressive", 60, Hand("right") @@ Fh(45)),
    Rec(APlusB, "Aggressive", 80, Hand("unknown") @@ Tal(Text(<<"2">>))),
    Rec(ADotB, "Aggressive", 40, Hand("Unknown")),
    Rec(ASpaceB, "Defensive", 60, Hand("Diestro") @@ Fh(10)),
    Rec(Ab, "Defensive", 80, Hand("Zurdo")) }

RawInputs == UNION {[1..n -> RawPool] : n \in 0..MaxRaw}

\* The search box: nothing typed (None), cleared (""), or a text
SearchInputs ==
  { None, Text(<<"A", "B">>), Text(<<".">>), Text(ADotB), Text(APlusB),
    Text(<<"(">>), Text(<<"*">>) }

StyleInputs == {None, Str(""), Str("Aggressive")}

HandInputs == {None, Str("Left"), Str("Right")}

\* The slider: value=0 at start, 0..100
SpeedInputs == {None, Num(0), Num(60)}

TabInputs ==
  { None, Str("overview"), Str("rally"), Str("volley"), Str("serve"), Str("special"),
    Str("physique"), Str("talents"), Str("compare"), Str("stats") }

\* "?player=" and a value, as the address bar may hold it
Query(value) == Text(<<"?">> \o PLAYER \o <<"=">> \o value)

UrlInputs ==
  { None, Query(<<>>), Query(Ab), Query(APlusB), Query(<<"a", "%", "2", "B", "b">>),
    Query(Ghost), Text(<<"?", "t", "=", "1">>),
    Text(<<"t", "=", "1", "&">> \o PLAYER \o <<"=">> \o Ab) }

NameInputs == {None, Text(<<>>), Text(Ab), Text(APlusB), Text(Ghost)}

TalentInputs ==
  { None, NaN, Num(0 - 1), Num(0), Num(1), Num(2), Num(5),
    Text(<<"b", "a", "d">>), Text(<<"2">>), Text(<<"-", "3">>) }

-----------------------------------------------------------------------------
(* The state machine.                                                      *)

Idle == [op |-> "none"]

Init ==
  /\ data \in RawInputs
  /\ df = <<>>
  /\ columns = {}
  /\ layout = [style |-> {}, hand |-> {}]
  /\ pc = "import"
  /\ out = Idle

\* The module body, lines 20-181: load data.json, build df, build the layout.
\* A column the body reads and the frame lacks raises KeyError: the import
\* fails and the app never serves.
Import ==
  /\ pc = "import"
  /\ IF ImportColumns \subseteq FrameColumns(data)
     THEN LET rows == NormalizeHand(drop_duplicates(DataFrame(data)))
          IN /\ df' = rows
             /\ columns' = FrameColumns(data)
             /\ layout' = [style |-> Options(rows, "style"), hand |-> Options(rows, "hand")]
             /\ pc' = "serving"
     ELSE /\ pc' = "failed"
          /\ UNCHANGED <<df, columns, layout>>
  /\ UNCHANGED <<data, out>>

UpdatePlayerList ==
  /\ pc = "serving"
  /\ \E search \in SearchInputs, style \in StyleInputs,
        hand \in HandInputs, min_speed \in SpeedInputs :
       out' = [op |-> "update_player_list", search |-> search, style |-> style,
               hand |-> hand, min_speed |-> min_speed,
               res |-> update_player_list(search, style, hand, min_speed)]
  /\ pc' = "replied"
  /\ UNCHANGED <<data, df, columns, layout>>

RenderTabs ==
  /\ pc = "serving"
  /\ \E tab \in TabInputs, search \in UrlInputs :
       out' = [op |-> "render_tabs", tab |-> tab, search |-> search, link |-> None,
               res |-> render_tabs(tab, search)]
  /\ pc' = "replied"
  /\ UNCHANGED <<data, df, columns, layout>>

\* The user follows a link of the player list as the page first renders it
\* (search None, no style, no hand, the slider at its value=0, so every player
\* is listed): the html.A loads its href, the page starts again on the tab
\* "overview" (active_tab) and render_tabs gets the query part of the href as
\* url.search
FollowLink ==
  /\ pc = "replied"
  /\ out.op = "update_player_list"
  /\ out.search = None /\ out.style = None /\ out.hand = None /\ out.min_speed = Num(0)
  /\ out.res.kind = "links"
  /\ \E k \in 1..Len(out.res.links) :
       LET href == out.res.links[k].href
           search == Text(SubSeq(href, FirstIndex(href, "?"), Len(href)))
       IN out' = [op |-> "render_tabs", tab |-> Str("overview"), search |-> search,
                  link |-> Text(out.res.links[k].text),
                  res |-> render_tabs(Str("overview"), search)]
  /\ UNCHANGED <<data, df, columns, layout, pc>>

ComparePlayers ==
  /\ pc = "serving"
  /\ \E a \in NameInputs, b \in NameInputs :
       out' = [op |-> "compare_players", a |-> a, b |-> b, res |-> compare_players(a, b)]
  /\ pc' = "replied"
  /\ UNCHANGED <<data, df, columns, layout>>

TalentToStars ==
  /\ pc = "serving"
  /\ \E val \in TalentInputs, max_one \in BOOLEAN :
       out' = [op |-> "talent_to_stars", val |-> val, max_one |-> max_one,
               res |-> talent_to_stars(val, max_one)]
  /\ pc' = "replied"
  /\ UNCHANGED <<data, df, columns, layout>>

\* The response is sent; the app waits for the next request
Respond ==
  /\ pc = "replied"
  /\ pc' = "serving"
  /\ out' = Idle
  /\ UNCHANGED <<data, df, columns, layout>>

Next ==
  \/ Import
  \/ UpdatePlayerList
  \/ RenderTabs
  \/ FollowLink
  \/ ComparePlayers
  \/ TalentToStars
  \/ Respond

Spec == Init /\ [][Next]_vars

-----------------------------------------------------------------------------
(* Properties.                                                             *)

\* The module body has run and the store exists
Loaded == pc \in {"serving", "replied"}

\* The position in data.json of the first record with the name
FirstOccurrence(name) ==
  CHOOSE j \in 1..Len(data) :
    data[j].name = name /\ \A k \in 1..(j - 1) : data[k].name # name

\* The raw record a stored row comes from, if the store keeps first occurrences
RawOf(row) == data[FirstOccurrence(row.name)]

\* C1: after load the store holds exactly one row per distinct name of the raw
\* sequence, that row carries the values of the first raw record with the name
\* (hand aside, which load normalises), and the rows are in the order of those
\* first occurrences.
C1_DedupFirstInOrder ==
  Loaded =>
    /\ {df[i].name : i \in 1..Len(df)} = {data[j].name : j \in 1..Len(data)}
    /\ \A i, j \in 1..Len(df) : i # j => df[i].name # df[j].name
    /\ \A i \in 1..Len(df) :
         \A c \in columns \ {"hand"} :
           df[i][c] = (IF c \in DOMAIN RawOf(df[i]) THEN RawOf(df[i])[c] ELSE NaN)
    /\ \A i, j \in 1..Len(df) :
         i < j => FirstOccurrence(df[i].name) < FirstOccurrence(df[j].name)

\* C1 witness: a name occurs twice with different values and the store is built
C1_Witness ==
  /\ pc = "serving"
  /\ \E j, k \in 1..Len(data) : j < k /\ data[j].name = data[k].name /\ data[j] # data[k]

\* An argument that constrains: neither None, nor "", nor 0
Active(x) == x \notin {None, Str(""), Text(<<>>), Num(0)}

\* The row meets the style, hand and speed criteria of the recorded call
MeetsCriteria(r) ==
  /\ Active(out.style) => r.style = out.style
  /\ Active(out.hand) => r.hand = out.hand
  /\ Active(out.min_speed) => r.speed.t = "int" /\ r.speed.v >= out.min_speed.v

\* The names update_player_list listed, in order
Listed ==
  IF out.res.kind = "links"
  THEN [k \in 1..Len(out.res.links) |-> out.res.links[k].text]
  ELSE <<>>

\* C2: update_player_list lists only stored rows that meet every active
\* criterion (style equal, hand equal, speed >= min_speed), in strictly
\* ascending name order; with no search text it raises nothing and lists every
\* such row, so None, "" and min_speed = 0 constrain nothing.
C2_FilterAndSort ==
  out.op = "update_player_list" =>
    /\ ~Active(out.search) => out.res.kind \in {"links", "no_players"}
    /\ out.res.kind = "links" => Len(Listed) > 0
    /\ \A k \in 1..Len(Listed) :
         \E i \in 1..Len(df) : df[i].name.v = Listed[k] /\ MeetsCriteria(df[i])
    /\ ~Active(out.search) =>
         \A i \in 1..Len(df) :
           MeetsCriteria(df[i]) => \E k \in 1..Len(Listed) : Listed[k] = df[i].name.v
    /\ \A k, l \in 1..Len(Listed) : k < l => StrLess(Listed[k], Listed[l])

\* C2 witness: style and min_speed both constrain, the store is not in name
\* order, and two rows are listed
C2_Witness ==
  /\ out.op = "update_player_list"
  /\ out.style = Str("Aggressive") /\ out.min_speed = Num(60) /\ ~Active(out.search)
  /\ Len(df) = 2 /\ StrLess(df[2].name.v, df[1].name.v)
  /\ Len(Listed) = 2

\* text occurs in name as a substring, letters compared without case
ContainsIgnoreCase(name, text) ==
  \E j \in 0..(Len(name) - Len(text)) :
    \A m \in 1..Len(text) : Lower(name[j + m]) = Lower(text[m])

\* C3: for every non-empty search text update_player_list raises nothing and
\* lists exactly the rows whose name contains the text literally (without case)
\* and that meet the other criteria.
C3_LiteralSearch ==
  (out.op = "update_player_list" /\ Active(out.search)) =>
    /\ out.res.kind \in {"links", "no_players"}
    /\ {Listed[k] : k \in 1..Len(Listed)} =
         {df[i].name.v : i \in {n \in 1..Len(df) :
             ContainsIgnoreCase(df[n].name.v, out.search.v) /\ MeetsCriteria(df[n])}}

\* The spellings of the lookup table, as the claim lists them
KnownSpellings ==
  {"L", "R", "U", "LeftHanded", "RightHanded", "left", "right", "unknown", "Unknown",
   "Diestro", "Zurdo"}

\* C4: after load a row whose raw record spells hand as the table does has
\* hand Left or Right, a row whose raw record has no hand has Left, and the
\* code U gives Left.
C4_HandNormalized ==
  Loaded =>
    \A i \in 1..Len(df) :
      LET raw == RawOf(df[i])
      IN /\ "hand" \notin DOMAIN raw => df[i].hand = Str("Left")
         /\ ("hand" \in DOMAIN raw /\ raw.hand.v \in KnownSpellings) =>
              df[i].hand \in {Str("Left"), Str("Right")}
         /\ ("hand" \in DOMAIN raw /\ raw.hand = Str("U")) => df[i].hand = Str("Left")

\* C4 witness: the store holds a row that had no hand and a row that had U
C4_Witness ==
  /\ pc = "serving"
  /\ \E i, j \in 1..Len(df) :
       /\ "hand" \notin DOMAIN RawOf(df[i])
       /\ "hand" \in DOMAIN RawOf(df[j]) /\ RawOf(df[j]).hand = Str("U")

StarStrings == {<<DashGlyph>>, <<StarGlyph>>, <<StarGlyph, StarGlyph>>}

\* C5: talent_to_stars returns the dash or one or two stars for every input,
\* at most one star with max_one, also for the cells the talents tab passes.
C5_DashOrStars ==
  /\ out.op = "talent_to_stars" =>
       /\ out.res \in StarStrings
       /\ out.max_one => Len(out.res) = 1
  /\ (out.op = "render_tabs" /\ out.res.kind = "talents") =>
       \A i \in 1..Len(out.res.rows) : out.res.rows[i][2] \in StarStrings

KnownTabs ==
  { Str("overview"), Str("rally"), Str("volley"), Str("serve"), Str("special"),
    Str("physique"), Str("talents"), Str("compare") }

\* C6: render_tabs answers "select a player" when the query carries no player
\* name; else "not found" with the requested name when no row has it; else
\* "Invalid tab." when the tab is none of the eight tab ids.
C6_VariantOrder ==
  out.op = "render_tabs" =>
    LET name == PlayerName(out.search)
        stored == \E i \in 1..Len(df) : df[i].name = name
    IN /\ ~Truthy(name) => out.res = [kind |-> "select_player"]
       /\ (Truthy(name) /\ ~stored) => out.res = [kind |-> "not_found", name |-> name.v]
       /\ (Truthy(name) /\ stored /\ out.tab \notin KnownTabs) =>
            out.res = [kind |-> "invalid_tab"]

\* C6 witness: a stored player is requested under a tab id the app does not have
C6_Witness ==
  /\ out.op = "render_tabs"
  /\ out.tab = Str("stats")
  /\ \E i \in 1..Len(df) : df[i].name = PlayerName(out.search)
  /\ out.res.kind = "invalid_tab"

\* C7: compare_players never raises; with a slot unselected it returns the
\* "select two players" placeholder.
C7_CompareNeverRaises ==
  out.op = "compare_players" =>
    /\ out.res.kind # "raise"
    /\ (~Truthy(out.a) \/ ~Truthy(out.b)) => out.res.kind = "select_two"

\* C8: the overview radar carries 0 for every radar attribute the player's raw
\* record lacks.
C8_OverviewDefaultZero ==
  (out.op = "render_tabs" /\ out.res.kind = "overview") =>
    \A i \in 1..Len(RADAR_ATTRS) :
      RADAR_ATTRS[i] \notin DOMAIN RawOf([name |-> Text(out.res.name)]) =>
        out.res.radar[i][2] = Num(0)

\* C9: after load every stored hand is Left or Right, and the hand dropdown
\* offers nothing else.
C9_HandLeftOrRight ==
  Loaded =>
    /\ \A i \in 1..Len(df) : df[i].hand \in {Str("Left"), Str("Right")}
    /\ layout.hand \subseteq {"Left", "Right"}

\* C10: the link update_player_list emits for a player, followed, makes
\* render_tabs show the stored row with exactly that name.
C10_LinkRoundTrip ==
  (out.op = "render_tabs" /\ out.link # None) =>
    /\ out.res.kind = "overview"
    /\ out.res.name = out.link.v

====
